---- MODULE Spec2Model ----
(***************************************************************************)
(* ROMnibus: the catalogue store (insertGames, FindByHash,                 *)
(* FindByFilename), the DAT parser (parseFilename, parseDAT), the run      *)
(* (populateDB), the hashing utility (CalculateFileHash) and the JSON      *)
(* variant (ProcessFile, Deduplicate, MergeAndDeduplicate).                *)
(*                                                                         *)
(* A Go string is modelled as a sequence of characters. An ASCII character *)
(* is the one-character string holding it; a character outside ASCII is    *)
(* named by its code point ("U+00C9"). File contents hashed by             *)
(* CalculateFileHash are sequences of bytes (0..255).                      *)
(***************************************************************************)
EXTENDS Integers, Sequences, FiniteSets, TLC

VARIABLES
    games,      \* the rows of table games, in rowid (insertion) order
    readOnly,   \* the database file is one main could neither replace nor write
    last,       \* the last call made on the store and what it returned
    pc,         \* populateDB: "idle", "download", "parse", "insert", "done", "panic"
    datFiles,   \* populateDB: the DAT files found, in walk order
    next,       \* populateDB: index of the next file to parse
    gameMap,    \* populateDB: platform -> records parsed for it so far
    todo,       \* populateDB: platforms whose group is not inserted yet
    totalGames, \* populateDB: records handed to successful inserts
    dat,        \* parseDAT: the game blocks of the file read
    parsedGames, \* parseDAT: what it returned (err "unset" before the call)
    target,     \* CalculateFileHash: the file its argument names
    digest,     \* CalculateFileHash: what it returned (err "unset" before)
    jsonFile,   \* ProcessFile: the file its argument names
    processed,  \* ProcessFile: what it returned (err "unset" before)
    allGames,   \* MergeAndDeduplicate: its argument
    unique      \* MergeAndDeduplicate: what it returned (done FALSE before)

storeVars == <<games, readOnly, last>>
runVars == <<pc, datFiles, next, gameMap, todo, totalGames>>
datVars == <<dat, parsedGames>>
hashVars == <<target, digest>>
jsonVars == <<jsonFile, processed, allGames, unique>>
vars == <<games, readOnly, last, pc, datFiles, next, gameMap, todo, totalGames,
          dat, parsedGames, target, digest, jsonFile, processed, allGames,
          unique>>

-----------------------------------------------------------------------------
(* Strings *)

\* The characters of an ASCII literal, in order.
RECURSIVE Chars(_)
Chars(s) == IF s = "" THEN <<>> ELSE <<Head(s)>> \o Chars(Tail(s))

\* n copies of character c.
RECURSIVE Rep(_, _)
Rep(c, n) == IF n = 0 THEN <<>> ELSE <<c>> \o Rep(c, n - 1)

UpperAZ == Chars("ABCDEFGHIJKLMNOPQRSTUVWXYZ")
LowerAZ == Chars("abcdefghijklmnopqrstuvwxyz")

\* Position of character c in sequence s, 0 when absent.
RECURSIVE IndexOf(_, _, _)
IndexOf(s, c, i) ==
    IF i > Len(s) THEN 0 ELSE IF s[i] = c THEN i ELSE IndexOf(s, c, i + 1)

\* One character folded to lower case, ASCII letters only.
AsciiLowerChar(c) ==
    LET k == IndexOf(UpperAZ, c, 1) IN IF k = 0 THEN c ELSE LowerAZ[k]

\* SQLite's built-in LOWER(): folds the ASCII letters and leaves every other
\* character as it is.
SqlLower(s) == [i \in 1..Len(s) |-> AsciiLowerChar(s[i])]

\* A character outside ASCII is written as the token "U+" and the four hex
\* digits of its code point. The characters of the model are ASCII and the
\* code points U+0080..U+017F (Latin-1, Latin Extended-A), U+0386..U+03CE
\* (Greek), U+0400..U+045F (Cyrillic), U+1680, U+2000..U+2BFF and U+3000.
HexUpper == Chars("0123456789ABCDEF")
CodePoint(c) ==
    4096 * (IndexOf(HexUpper, SubSeq(c, 3, 3), 1) - 1)
    + 256 * (IndexOf(HexUpper, SubSeq(c, 4, 4), 1) - 1)
    + 16 * (IndexOf(HexUpper, SubSeq(c, 5, 5), 1) - 1)
    + (IndexOf(HexUpper, SubSeq(c, 6, 6), 1) - 1)
CharOf(n) ==
    "U+" \o HexUpper[((n \div 4096) % 16) + 1] \o HexUpper[((n \div 256) % 16) + 1]
         \o HexUpper[((n \div 16) % 16) + 1] \o HexUpper[(n % 16) + 1]

\* unicode.ToLower on the non-ASCII code points of the model.
LowerCodePoint(n) ==
    CASE (n >= 192 /\ n <= 222 /\ n # 215) -> n + 32
      [] n = 376 -> 255
      [] (n >= 256 /\ n <= 303) \/ (n >= 306 /\ n <= 311)
            \/ (n >= 330 /\ n <= 375) -> IF n % 2 = 0 THEN n + 1 ELSE n
      [] (n >= 313 /\ n <= 328) \/ (n >= 377 /\ n <= 382) ->
            IF n % 2 = 1 THEN n + 1 ELSE n
      [] n = 902 -> 940
      [] n >= 904 /\ n <= 906 -> n + 37
      [] n = 908 -> 972
      [] n = 910 \/ n = 911 -> n + 63
      [] (n >= 913 /\ n <= 939 /\ n # 930) -> n + 32
      [] n >= 1024 /\ n <= 1039 -> n + 80
      [] n >= 1040 /\ n <= 1071 -> n + 32
      [] n = 304 -> 105
      [] n = 8486 -> 969
      [] n = 8490 -> 107
      [] n = 8491 -> 229
      [] n = 8498 -> 8526
      [] n >= 8544 /\ n <= 8559 -> n + 16
      [] n = 8579 -> 8580
      [] n >= 9398 /\ n <= 9423 -> n + 26
      [] OTHER -> n

\* Go's strings.ToLower: unicode.ToLower of every character. U+0130 and
\* U+212A have the ASCII lower-case forms i (105) and k (107).
UnicodeLowerChar(c) ==
    IF Len(c) = 1 THEN AsciiLowerChar(c)
    ELSE LET n == LowerCodePoint(CodePoint(c)) IN
         IF n = 105 THEN "i" ELSE IF n = 107 THEN "k" ELSE CharOf(n)
ToLower(s) == [i \in 1..Len(s) |-> UnicodeLowerChar(s[i])]

-----------------------------------------------------------------------------
(* The store: table games, UNIQUE (filename, hash) *)

Game(name, filename, platform, hash) ==
    [Name |-> name, Filename |-> filename, Platform |-> platform, Hash |-> hash]

\* UNIQUE (filename, hash): two rows conflict when both columns are equal
\* (BINARY collation: character by character, case included).
UniqueConflict(row, g) == row.Filename = g.Filename /\ row.Hash = g.Hash

\* INSERT OR IGNORE INTO games VALUES (?, ?, ?, ?) on the transaction's rows.
StmtExecIgnoresNothing(tx, g) == Append(tx, g)
StmtExec(tx, g) ==
    IF \E i \in 1..Len(tx) : UniqueConflict(tx[i], g) THEN tx ELSE Append(tx, g)

\* What a fault injected by the environment (I/O error, missing table, full
\* disk) hits: nothing, db.Begin, tx.Prepare, the idx-th stmt.Exec, tx.Commit.
NoFault == [at |-> "none", idx |-> 0]
Faults(n) ==
    {NoFault} \cup {[at |-> a, idx |-> 0] : a \in {"begin", "prepare", "commit"}}
              \cup {[at |-> "exec", idx |-> i] : i \in 1..n}

\* The faults a call with n records can meet. On a write-protected database
\* file the first stmt.Exec fails (attempt to write a readonly database); a
\* call without records writes nothing.
FaultsOf(ro, n) ==
    IF ro THEN {f \in Faults(n) : IF n = 0 THEN f.at # "exec"
                                  ELSE f.at \in {"begin", "prepare"}
                                       \/ (f.at = "exec" /\ f.idx = 1)}
    ELSE Faults(n)

\* tx.Rollback() discards the transaction's rows; tx.Commit() makes them the
\* table's rows.
RollbackKeepsRows(db, tx) == tx
Rollback(db, tx) == db
Commit(db, tx) == tx

\* The loop over games: stops at the first stmt.Exec that returns an error.
RECURSIVE ExecLoop(_, _, _, _)
ExecLoop(tx, gs, i, fault) ==
    IF i > Len(gs) THEN [tx |-> tx, err |-> "nil"]
    ELSE IF fault.at = "exec" /\ fault.idx = i
         THEN [tx |-> tx, err |-> "failed to insert game"]
         ELSE ExecLoop(StmtExec(tx, gs[i]), gs, i + 1, fault)

insertGames(db, gs, fault) ==
    IF fault.at = "begin"
    THEN [db |-> db, err |-> "failed to begin transaction"]
    ELSE IF fault.at = "prepare"
    THEN [db |-> Rollback(db, db), err |-> "failed to prepare statement"]
    ELSE LET r == ExecLoop(db, gs, 1, fault) IN
         IF r.err # "nil" THEN [db |-> Rollback(db, r.tx), err |-> r.err]
         ELSE IF fault.at = "commit"
         THEN [db |-> Rollback(db, r.tx), err |-> "failed to commit transaction"]
         ELSE [db |-> Commit(db, r.tx), err |-> "nil"]

\* QueryRow(... LIMIT 1).Scan: the first matching row in rowid order, or
\* sql.ErrNoRows, which the lookups turn into (nil, nil).
NoGame == Game(<<>>, <<>>, <<>>, <<>>)
FirstRow(db, hits) ==
    IF hits = {} THEN [present |-> FALSE, game |-> NoGame, err |-> "nil"]
    ELSE [present |-> TRUE,
          game |-> db[CHOOSE i \in hits : \A j \in hits : i <= j],
          err |-> "nil"]

NotInitialized ==
    [present |-> FALSE, game |-> NoGame, err |-> "database is not initialized"]

\* QueryRow(...).Scan failed with an error other than sql.ErrNoRows (no table
\* games, closed handle, I/O error).
QueryFailed(what) ==
    [present |-> FALSE, game |-> NoGame, err |-> "failed to query game by " \o what]

FindByHash(dbNil, queryErr, db, hash) ==
    IF dbNil THEN NotInitialized
    ELSE IF queryErr THEN QueryFailed("hash")
    ELSE FirstRow(db, {i \in 1..Len(db) : SqlLower(db[i].Hash) = SqlLower(hash)})

FindByFilename(dbNil, queryErr, db, filename) ==
    IF dbNil THEN NotInitialized
    ELSE IF queryErr THEN QueryFailed("filename")
    ELSE FirstRow(db, {i \in 1..Len(db) :
                          SqlLower(db[i].Filename) = SqlLower(filename)})

-----------------------------------------------------------------------------
(* parseFilename and parseDAT *)

Space == {" ", "\t", "\n", "\r", "\f"}
HexDigit == {"0", "1", "2", "3", "4", "5", "6", "7", "8", "9",
             "a", "b", "c", "d", "e", "f", "A", "B", "C", "D", "E", "F"}

\* strings.HasPrefix, strings.HasSuffix, strings.TrimSuffix, strings.Index
\* (1-based here, 0 when absent) and strings.TrimSpace.
HasPrefix(s, p) == Len(s) >= Len(p) /\ SubSeq(s, 1, Len(p)) = p
HasSuffix(s, p) == Len(s) >= Len(p) /\ SubSeq(s, Len(s) - Len(p) + 1, Len(s)) = p
TrimSuffix(s, p) == IF HasSuffix(s, p) THEN SubSeq(s, 1, Len(s) - Len(p)) ELSE s
Index(s, c) ==
    LET at == {i \in 1..Len(s) : s[i] = c} IN
    IF at = {} THEN 0 ELSE CHOOSE i \in at : \A j \in at : i <= j
UnicodeSpace ==
    {" ", "\t", "\n", "\f", "\r", "U+000B", "U+0085", "U+00A0", "U+1680",
     "U+2028", "U+2029", "U+202F", "U+205F", "U+3000"}
    \cup {CharOf(n) : n \in 8192..8202}
TrimSpace(s) ==
    LET solid == {i \in 1..Len(s) : s[i] \notin UnicodeSpace} IN
    IF solid = {} THEN <<>>
    ELSE SubSeq(s, CHOOSE i \in solid : \A j \in solid : i <= j,
                   CHOOSE i \in solid : \A j \in solid : i >= j)

parseFilename(filename) ==
    LET openIndex == Index(filename, "(") IN
    IF openIndex = 0 THEN TrimSpace(TrimSuffix(filename, Chars(".dat")))
    ELSE TrimSpace(SubSeq(filename, 1, openIndex - 1))

\* The pieces of gameBlockRegex, in order. A literal matches its characters; a
\* class item matches min..max characters of its class (max 0: no limit),
\* greedy or lazy, into capture group cap (0: not captured).
Lit(str) == [kind |-> "lit", str |-> Chars(str)]
Cls(cls, min, max, greedy, cap) ==
    [kind |-> "cls", cls |-> cls, min |-> min, max |-> max,
     greedy |-> greedy, cap |-> cap]
Sha1HexLen == 40
gameBlockRegex ==
    << Lit("game"), Cls("space", 0, 0, TRUE, 0), Lit("("),
       Cls("space", 0, 0, TRUE, 0), Lit("name"), Cls("space", 1, 0, TRUE, 0),
       Lit("\""), Cls("notquote", 1, 0, TRUE, 1), Lit("\""),
       Cls("notbrace", 0, 0, FALSE, 0), Lit("rom"),
       Cls("space", 0, 0, TRUE, 0), Lit("("),
       Cls("notbrace", 0, 0, FALSE, 0), Lit("name"),
       Cls("space", 1, 0, TRUE, 0), Cls("notspace", 1, 0, TRUE, 2),
       Cls("notbrace", 0, 0, FALSE, 0), Lit("sha1"),
       Cls("space", 1, 0, TRUE, 0), Cls("hex", Sha1HexLen, Sha1HexLen, TRUE, 3),
       Cls("notbrace", 0, 0, FALSE, 0), Lit(")"),
       Cls("space", 0, 0, TRUE, 0), Lit(")") >>

InClass(cls, c) ==
    CASE cls = "space" -> c \in Space
      [] cls = "notspace" -> c \notin Space
      [] cls = "notquote" -> c # "\""
      [] cls = "notbrace" -> c # "}"
      [] cls = "hex" -> c \in HexDigit

\* How many characters of the class stand at pos, up to max.
RunLen(text, pos, cls, max) ==
    LET stop == {j \in pos..Len(text) : ~InClass(cls, text[j])}
        run == IF stop = {} THEN Len(text) - pos + 1
               ELSE (CHOOSE j \in stop : \A k \in stop : j <= k) - pos
    IN IF max > 0 /\ run > max THEN max ELSE run

NoMatch == [ok |-> FALSE, end |-> 0, caps |-> <<>>]

\* Whether re[k] can start at pos at all: a literal has to stand there.
CanStart(re, k, text, pos) ==
    \/ k > Len(re)
    \/ re[k].kind # "lit"
    \/ /\ pos + Len(re[k].str) - 1 <= Len(text)
       /\ SubSeq(text, pos, pos + Len(re[k].str) - 1) = re[k].str

\* The run lengths item re[k] may take at pos, in the order a backtracking
\* matcher tries them: longest first when greedy, shortest first when lazy.
Tries(re, k, text, pos) ==
    LET run == RunLen(text, pos, re[k].cls, re[k].max)
        ns == {n \in re[k].min..run : CanStart(re, k + 1, text, pos + n)}
        Before(a, b) == IF re[k].greedy THEN a > b ELSE a < b
    IN [i \in 1..Cardinality(ns) |->
           CHOOSE n \in ns : Cardinality({m \in ns : Before(m, n)}) = i - 1]

\* The match of re[k..] at pos that a backtracking (leftmost-first) matcher
\* finds first. try is the list of run lengths still to be tried for re[k].
RECURSIVE MatchFrom(_, _, _, _, _)
RECURSIVE TryEach(_, _, _, _, _, _)
TryEach(re, k, text, pos, caps, try) ==
    IF try = <<>> THEN NoMatch
    ELSE LET n == Head(try)
             m == MatchFrom(re, k + 1, text, pos + n,
                            IF re[k].cap = 0 THEN caps
                            ELSE [caps EXCEPT ![re[k].cap] =
                                      SubSeq(text, pos, pos + n - 1)])
         IN IF m.ok THEN m ELSE TryEach(re, k, text, pos, caps, Tail(try))

MatchFrom(re, k, text, pos, caps) ==
    IF k > Len(re) THEN [ok |-> TRUE, end |-> pos, caps |-> caps]
    ELSE IF re[k].kind = "lit"
    THEN IF CanStart(re, k, text, pos)
         THEN MatchFrom(re, k + 1, text, pos + Len(re[k].str), caps)
         ELSE NoMatch
    ELSE TryEach(re, k, text, pos, caps, Tries(re, k, text, pos))

\* FindAllStringSubmatch(text, -1): the successive non-overlapping matches,
\* each the leftmost one at or after the end of the one before.
RECURSIVE FindAllStringSubmatch(_, _, _)
FindAllStringSubmatch(re, text, from) ==
    LET found == {m \in {[at |-> s, m |-> MatchFrom(re, 1, text, s, <<<<>>, <<>>, <<>>>>)] :
                             s \in {u \in from..Len(text) : CanStart(re, 1, text, u)}} :
                     m.m.ok}
        first == CHOOSE m \in found : \A o \in found : m.at <= o.at
    IN IF found = {} THEN <<>>
       ELSE <<first.m.caps>> \o FindAllStringSubmatch(re, text, first.m.end)

\* One match to one record: a filename token that begins with a quote is
\* replaced by the empty filename, and the digest is lower-cased.
GameOfMatch(match, platform) ==
    Game(match[1],
         IF HasPrefix(match[2], Chars("\"")) THEN <<>> ELSE match[2],
         platform,
         ToLower(match[3]))

\* parseDAT of a readable file holding content.
parseDAT(content, platform) ==
    LET matches == FindAllStringSubmatch(gameBlockRegex, content, 1)
    IN [i \in 1..Len(matches) |-> GameOfMatch(matches[i], platform)]

-----------------------------------------------------------------------------
(* CalculateFileHash *)

\* A 32-bit word is the pair of its high and low 16 bits.
RECURSIVE BitOp(_, _, _, _)
BitOp(op, a, b, n) ==
    IF n = 0 THEN 0
    ELSE (CASE op = "and" -> (a % 2) * (b % 2)
            [] op = "or" -> IF (a % 2) + (b % 2) > 0 THEN 1 ELSE 0
            [] op = "xor" -> ((a % 2) + (b % 2)) % 2)
         + 2 * BitOp(op, a \div 2, b \div 2, n - 1)
And32(a, b) == <<BitOp("and", a[1], b[1], 16), BitOp("and", a[2], b[2], 16)>>
Or32(a, b) == <<BitOp("or", a[1], b[1], 16), BitOp("or", a[2], b[2], 16)>>
Xor32(a, b) == <<BitOp("xor", a[1], b[1], 16), BitOp("xor", a[2], b[2], 16)>>
Not32(a) == <<65535 - a[1], 65535 - a[2]>>
Add32(a, b) ==
    <<(a[1] + b[1] + ((a[2] + b[2]) \div 65536)) % 65536, (a[2] + b[2]) % 65536>>
RotL(a, n) ==
    LET h == IF n < 16 THEN a[1] ELSE a[2]
        l == IF n < 16 THEN a[2] ELSE a[1]
        k == IF n < 16 THEN n ELSE n - 16
    IN <<((h * 2^k) % 65536) + (l \div 2^(16 - k)),
         ((l * 2^k) % 65536) + (h \div 2^(16 - k))>>

\* SHA-1 (crypto/sha1): padding to whole 64-byte blocks, the message
\* schedule, the 80 rounds of each block.
Sha1Pad(msg) ==
    msg \o <<128>> \o [i \in 1..((119 - Len(msg)) % 64) |-> 0]
        \o <<(((Len(msg) \div 536870912) \div 256) \div 65536) % 256,
             (((Len(msg) \div 536870912) \div 256) \div 256) % 256,
             ((Len(msg) \div 536870912) \div 256) % 256,
             (Len(msg) \div 536870912) % 256,
             (Len(msg) \div 2097152) % 256, (Len(msg) \div 8192) % 256,
             (Len(msg) \div 32) % 256, (Len(msg) % 32) * 8>>
Sha1Word(p, i) ==
    <<p[4 * i + 1] * 256 + p[4 * i + 2], p[4 * i + 3] * 256 + p[4 * i + 4]>>
\* Words t .. end of the schedule, appended to the t-1 words of w.
RECURSIVE Sha1Schedule(_, _, _)
Sha1Schedule(w, t, end) ==
    IF t > end \/ Len(w) # t - 1 THEN w
    ELSE Sha1Schedule(
             Append(w, RotL(Xor32(Xor32(w[t - 3], w[t - 8]),
                                  Xor32(w[t - 14], w[t - 16])), 1)),
             t + 1, end)
Sha1F(t, b, c, d) ==
    IF t < 20 THEN Or32(And32(b, c), And32(Not32(b), d))
    ELSE IF t < 40 THEN Xor32(Xor32(b, c), d)
    ELSE IF t < 60 THEN Or32(Or32(And32(b, c), And32(b, d)), And32(c, d))
    ELSE Xor32(Xor32(b, c), d)
Sha1K(t) ==
    IF t < 20 THEN <<23170, 31129>>
    ELSE IF t < 40 THEN <<28377, 60321>>
    ELSE IF t < 60 THEN <<36635, 48348>>
    ELSE <<51810, 49622>>
\* Rounds t .. end-1 on working state s = <<a, b, c, d, e>>.
RECURSIVE Sha1Rounds(_, _, _, _)
Sha1Rounds(w, s, t, end) ==
    IF t = end \/ Len(s) # 5 THEN s
    ELSE Sha1Rounds(w,
             << Add32(Add32(Add32(Add32(RotL(s[1], 5), Sha1F(t, s[2], s[3], s[4])),
                                  s[5]), Sha1K(t)), w[t + 1]),
                s[1], RotL(s[2], 30), s[3], s[4] >>,
             t + 1, end)
Sha1Init ==
    << <<26437, 8961>>, <<61389, 43913>>, <<39098, 56574>>,
       <<4146, 21622>>, <<50130, 57840>> >>
Sha1Block(h, p, k) ==
    LET w == Sha1Schedule(Sha1Schedule(Sha1Schedule(Sha1Schedule(
                 [i \in 1..16 |-> Sha1Word(p, 16 * k + i - 1)],
                 17, 32), 33, 48), 49, 64), 65, 80)
        s == Sha1Rounds(w, Sha1Rounds(w, Sha1Rounds(w, Sha1Rounds(w,
                 Sha1Rounds(w, h, 0, 16), 16, 32), 32, 48), 48, 64), 64, 80)
    IN [i \in 1..5 |-> Add32(h[i], s[i])]
RECURSIVE Sha1Blocks(_, _, _)
Sha1Blocks(h, p, k) ==
    IF 64 * k >= Len(p) THEN h ELSE Sha1Blocks(Sha1Block(h, p, k), p, k + 1)
Sha1Sum(msg) == Sha1Blocks(Sha1Init, Sha1Pad(msg), 0)

\* fmt.Sprintf("%x", sum): two lower-case hex digits per byte.
HexDigits == Chars("0123456789abcdef")
Hex16(n) ==
    << HexDigits[(n \div 4096) + 1], HexDigits[((n \div 256) % 16) + 1],
       HexDigits[((n \div 16) % 16) + 1], HexDigits[(n % 16) + 1] >>
SprintfHex(sum) ==
    Hex16(sum[1][1]) \o Hex16(sum[1][2]) \o Hex16(sum[2][1]) \o Hex16(sum[2][2])
    \o Hex16(sum[3][1]) \o Hex16(sum[3][2]) \o Hex16(sum[4][1]) \o Hex16(sum[4][2])
    \o Hex16(sum[5][1]) \o Hex16(sum[5][2])

\* filepath.Ext: from the last dot of the last path element on, or empty.
Ext(path) ==
    LET dots == {i \in 1..Len(path) :
                    /\ path[i] = "."
                    /\ \A j \in i..Len(path) : path[j] # "/"}
    IN IF dots = {} THEN <<>>
       ELSE SubSeq(path, CHOOSE i \in dots : \A j \in dots : i >= j, Len(path))

\* A file on disk: whether os.Open succeeds, whether reading it to the end
\* succeeds, its bytes, and what zip.OpenReader makes of it: not an archive
\* (valid FALSE), or the entries of its central directory in declared order,
\* each with whether Open succeeds, whether it decompresses to the end with a
\* matching checksum, and its decompressed bytes.
DiskFile(openable, readable, bytes, valid, entries) ==
    [openable |-> openable, readable |-> readable, bytes |-> bytes,
     valid |-> valid, entries |-> entries]
ZipEntry(openable, intact, data) ==
    [openable |-> openable, intact |-> intact, data |-> data]

Hashed(hash) == [hash |-> hash, err |-> "nil"]
HashError(err) == [hash |-> <<>>, err |-> err]

calculateZipHashOfNothing(file) ==
    IF ~file.openable \/ ~file.valid THEN HashError("failed to open zip file")
    ELSE IF Len(file.entries) = 0 THEN Hashed(SprintfHex(Sha1Sum(<<>>)))
    ELSE Hashed(SprintfHex(Sha1Sum(file.entries[1].data)))
calculateZipHashOfLast(file) ==
    IF ~file.openable \/ ~file.valid THEN HashError("failed to open zip file")
    ELSE IF Len(file.entries) = 0 THEN HashError("zip file is empty")
    ELSE IF ~file.entries[Len(file.entries)].openable
    THEN HashError("failed to open file within zip")
    ELSE IF ~file.entries[Len(file.entries)].intact
    THEN HashError("failed to calculate hash within zip")
    ELSE Hashed(SprintfHex(Sha1Sum(file.entries[Len(file.entries)].data)))
calculateZipHash(file) ==
    IF ~file.openable \/ ~file.valid THEN HashError("failed to open zip file")
    ELSE IF Len(file.entries) = 0 THEN HashError("zip file is empty")
    ELSE IF ~file.entries[1].openable
    THEN HashError("failed to open file within zip")
    ELSE IF ~file.entries[1].intact
    THEN HashError("failed to calculate hash within zip")
    ELSE Hashed(SprintfHex(Sha1Sum(file.entries[1].data)))

CalculateFileHash(filename, file) ==
    IF ToLower(Ext(filename)) = Chars(".zip") THEN calculateZipHash(file)
    ELSE IF ~file.openable THEN HashError("failed to open file")
    ELSE IF ~file.readable THEN HashError("failed to calculate hash")
    ELSE Hashed(SprintfHex(Sha1Sum(file.bytes)))

-----------------------------------------------------------------------------
(* ProcessFile, Deduplicate, MergeAndDeduplicate *)

GameData(name, filename, platform, roms) ==
    [Name |-> name, Filename |-> filename, Platform |-> platform, ROMs |-> roms]

\* A decoded JSON value: a string, a number, an object (a function from its
\* keys to values), an array of values, or anything else.
JString(s) == [type |-> "string", s |-> s]
JNumber(n) == [type |-> "number", n |-> n]
JObject(fields) == [type |-> "object", fields |-> fields]
JArray(items) == [type |-> "array", items |-> items]
JOther == [type |-> "other"]

\* romObj[key].(string) and romObj[key].(float64): the value when the key is
\* there with that type, the zero value otherwise.
StringField(obj, key) ==
    IF key \in DOMAIN obj /\ obj[key].type = "string" THEN obj[key].s ELSE <<>>
NumberField(obj, key) ==
    IF key \in DOMAIN obj /\ obj[key].type = "number" THEN obj[key].n ELSE 0

RomOfObject(obj) ==
    [Name |-> StringField(obj, "Name"), Size |-> NumberField(obj, "Size"),
     Crc |-> StringField(obj, "Crc"), Md5 |-> StringField(obj, "Md5"),
     Sha1 |-> StringField(obj, "Sha1"), Sha256 |-> StringField(obj, "Sha256")]

\* Only ROMs with at least one hash populated are included.
HasHash(rom) ==
    rom.Crc # <<>> \/ rom.Md5 # <<>> \/ rom.Sha1 # <<>> \/ rom.Sha256 # <<>>

\* The ROMs one attribute named "ROMs" adds: from an array, its objects; from
\* a single object, that object; from anything else, nothing.
RomsOfValue(value) ==
    LET IsObject(item) == item.type = "object"
        objs == IF value.type = "array" THEN SelectSeq(value.items, IsObject)
                ELSE IF value.type = "object" THEN <<value>>
                ELSE <<>>
    IN SelectSeq([i \in 1..Len(objs) |-> RomOfObject(objs[i].fields)], HasHash)

RECURSIVE RomsOfAttributes(_)
RomsOfAttributes(attrs) ==
    IF attrs = <<>> THEN <<>>
    ELSE (IF Head(attrs).AttributeName = Chars("ROMs")
          THEN RomsOfValue(Head(attrs).Value) ELSE <<>>)
         \o RomsOfAttributes(Tail(attrs))

\* fmt.Sprintf("%s:%s:%s:%s", ...) and fmt.Sprintf("%s:%s:%s", ...)
RomKey(rom) ==
    rom.Crc \o <<":">> \o rom.Md5 \o <<":">> \o rom.Sha1 \o <<":">> \o rom.Sha256
GameKey(game) ==
    game.Name \o <<":">> \o game.Filename \o <<":">> \o game.Platform

\* The loop of Deduplicate: a ROM is kept when its key is not in seen yet.
RECURSIVE DeduplicateFrom(_, _)
DeduplicateFrom(roms, seen) ==
    IF roms = <<>> THEN <<>>
    ELSE IF RomKey(Head(roms)) \in seen THEN DeduplicateFrom(Tail(roms), seen)
    ELSE <<Head(roms)>>
         \o DeduplicateFrom(Tail(roms), seen \cup {RomKey(Head(roms))})
Deduplicate(roms) == DeduplicateFrom(roms, {})

\* The loop of MergeAndDeduplicate: a game is kept when its key is not in seen
\* yet.
RECURSIVE MergeFrom(_, _)
MergeFrom(gs, seen) ==
    IF gs = <<>> THEN <<>>
    ELSE IF GameKey(Head(gs)) \in seen THEN MergeFrom(Tail(gs), seen)
    ELSE <<Head(gs)>> \o MergeFrom(Tail(gs), seen \cup {GameKey(Head(gs))})
MergeAndDeduplicate(gs) == MergeFrom(gs, {})

\* The keys of the platforms map of ProcessFile.
PlatformsOf(data) ==
    {data.SignatureDataObjects[i].Platform :
        i \in 1..Len(data.SignatureDataObjects)} \ {<<>>}

\* ProcessFile(filename) on a file that is unreadable, not JSON, or decodes to
\* data. order is the order in which range visits the keys of platforms.
ProcessFileNeverSplits(file, order) ==
    IF ~file.readable THEN [games |-> <<>>, err |-> "error reading file"]
    ELSE IF ~file.valid THEN [games |-> <<>>, err |-> "error parsing JSON"]
    ELSE [games |->
             << GameData(file.data.Name,
                         TrimSuffix(file.name, Ext(file.name)),
                         IF Len(file.data.SignatureDataObjects) > 0
                         THEN file.data.SignatureDataObjects[1].Platform
                         ELSE <<>>,
                         Deduplicate(RomsOfAttributes(file.data.Attributes))) >>,
          err |-> "nil"]
ProcessFile(file, order) ==
    IF ~file.readable THEN [games |-> <<>>, err |-> "error reading file"]
    ELSE IF ~file.valid THEN [games |-> <<>>, err |-> "error parsing JSON"]
    ELSE LET data == file.data
             platform == IF Len(data.SignatureDataObjects) > 0
                         THEN data.SignatureDataObjects[1].Platform
                         ELSE <<>>
             game == GameData(data.Name,
                              TrimSuffix(file.name, Ext(file.name)),
                              platform,
                              Deduplicate(RomsOfAttributes(data.Attributes)))
         IN IF Cardinality(PlatformsOf(data)) > 1
            THEN [games |-> [i \in 1..Len(order) |->
                                [game EXCEPT !.Platform = order[i]]],
                  err |-> "nil"]
            ELSE [games |-> <<game>>, err |-> "nil"]

-----------------------------------------------------------------------------
(* Inputs *)

\* Bounds of the model.
MaxBatch == 2
MaxFiles == 3
MaxBlocks == 2
MaxEntries == 2
MaxSigs == 3
MaxGames == 3

HashA == Rep("a", Sha1HexLen)
HashB == Rep("b", Sha1HexLen)

\* The rows an earlier run left in a database file that cannot be replaced.
OldStores == {<<Game(Chars("Old"), Chars("old.bin"), Chars("GB"), HashB)>>}

\* One game block of a DAT file, as the libretro DAT files write it. rom says
\* what the block holds: "full" (rom clause with name and sha1), "quoted" (the
\* rom name is a quoted string with a space in it), "nofile" (rom clause
\* without a name), "nosha1" (rom clause without a digest), "norom".
DatBlock(name, rom, file, sha1) ==
    Chars("game (\n\tname \"") \o name \o Chars("\"\n")
    \o (CASE rom = "norom" -> <<>>
          [] rom = "full" ->
               Chars("\trom ( name ") \o file \o Chars(" size 1 sha1 ") \o sha1 \o Chars(" )\n")
          [] rom = "quoted" ->
               Chars("\trom ( name \"my ") \o file \o Chars("\" size 1 sha1 ") \o sha1 \o Chars(" )\n")
          [] rom = "nofile" ->
               Chars("\trom ( size 1 sha1 ") \o sha1 \o Chars(" )\n")
          [] rom = "nosha1" ->
               Chars("\trom ( name ") \o file \o Chars(" size 1 crc 0A )\n"))
    \o Chars(")\n\n")

\* The records insertGames is handed in the store-level specification: what
\* parseDAT can return (lower-case 40-digit hash, filename empty or one token).
StoreRecords ==
    { Game(Chars("Mario"), <<"U+00E9">> \o Chars(".bin"), Chars("GB"), HashA),
      Game(Chars("Luigi"), <<"U+00E9">> \o Chars(".bin"), Chars("GBC"), HashA),
      Game(Chars("Wario"), <<"U+00C9">> \o Chars(".bin"), Chars("GB"), HashA) }

RECURSIVE SeqsUpTo(_, _)
SeqsUpTo(S, n) ==
    IF n = 0 THEN {<<>>}
    ELSE LET shorter == SeqsUpTo(S, n - 1)
         IN shorter \cup {Append(s, x) : s \in shorter, x \in S}

Batches == SeqsUpTo(StoreRecords, MaxBatch)

\* Query strings of the external callers of the lookups.
HashQueries == {HashA, Rep("A", Sha1HexLen), HashB}
FilenameQueries ==
    { <<"U+00E9">> \o Chars(".bin"), <<"U+00E9">> \o Chars(".BIN"),
      <<"U+00C9">> \o Chars(".BIN"), Chars("z.bin") }

\* The DAT files of a run: base name, whether os.ReadFile succeeds, content.
DatFile(name, readable, content) ==
    [name |-> name, readable |-> readable, content |-> content]
DatFileUniverse ==
    { DatFile(Chars("GB (v1).dat"), TRUE,
              DatBlock(Chars("Mario"), "full", Chars("a.bin"), Rep("A", Sha1HexLen))),
      DatFile(Chars("GBC.dat"), TRUE,
              DatBlock(Chars("Luigi"), "full", Chars("a.bin"), HashA)
              \o DatBlock(Chars("Wario"), "quoted", Chars("w.bin"), HashB)),
      DatFile(Chars("GB.dat"), TRUE,
              DatBlock(Chars("Zelda"), "full", Chars("z.bin"), HashB)),
      DatFile(Chars("GBA.dat"), TRUE,
              DatBlock(Chars("Metroid"), "full", Chars("A.BIN"), HashA)),
      DatFile(Chars("NES.dat"), FALSE, <<>>) }

\* The files CalculateFileHash is pointed at: plain files (readable or not)
\* under plain and .zip names, and zip archives under .zip names.
Contents == {<<>>, <<97>>, <<97, 98, 99>>, [i \in 1..56 |-> 97]}
EntryUniverse ==
    {ZipEntry(TRUE, TRUE, c) : c \in Contents}
    \cup {ZipEntry(FALSE, TRUE, <<97>>), ZipEntry(TRUE, FALSE, <<97>>)}
PlainName == Chars("roms/mario.gb")
ZipNames ==
    {Chars("roms/mario.zip"), Chars("roms.d/MARIO.ZIP"),
     Chars("roms/m.Z") \o <<"U+0130", "P">>}
PlainFile(bytes) == DiskFile(TRUE, TRUE, bytes, FALSE, <<>>)
Target(name, file) == [name |-> name, file |-> file]
TargetUniverse ==
    {Target(n, DiskFile(TRUE, TRUE, <<80, 75>>, TRUE, es)) :
        n \in ZipNames, es \in SeqsUpTo(EntryUniverse, MaxEntries)}
    \cup
    {Target(n, DiskFile(a[1], a[2], c, FALSE, <<>>)) :
        n \in {PlainName} \cup ZipNames, c \in Contents,
        a \in {<<TRUE, TRUE>>, <<FALSE, TRUE>>, <<TRUE, FALSE>>}}

\* The JSON files ProcessFile is given: one title, up to MaxSigs signature
\* descriptors, and one of three attribute lists.
JsonFile(name, readable, valid, data) ==
    [name |-> name, readable |-> readable, valid |-> valid, data |-> data]
GameFileOf(name, sigs, attrs) ==
    [Name |-> name, SignatureDataObjects |-> sigs, Attributes |-> attrs]
Attribute(name, value) == [AttributeName |-> name, Value |-> value]
SigUniverse == {[Platform |-> p] : p \in {<<>>, Chars("NES"), Chars("SNES")}}
RomObjectA ==
    JObject([Name |-> JString(Chars("m.nes")), Size |-> JNumber(1024),
             Crc |-> JString(Chars("0a")), Sha1 |-> JString(Chars("aa"))])
RomObjectADup ==
    JObject([Name |-> JString(Chars("m (alt).nes")), Size |-> JString(Chars("1024")),
             Crc |-> JString(Chars("0a")), Sha1 |-> JString(Chars("aa"))])
RomObjectNoHash ==
    JObject([Name |-> JString(Chars("n.nes")), Size |-> JNumber(1), Crc |-> JNumber(10)])
RomObjectB ==
    JObject([Name |-> JString(Chars("s.sfc")), Md5 |-> JString(Chars("bb"))])
AttributeLists ==
    { << Attribute(Chars("ROMs"),
                   JArray(<<RomObjectA, JString(Chars("x")), RomObjectADup,
                            RomObjectNoHash, RomObjectB>>)) >>,
      << Attribute(Chars("Year"), JOther), Attribute(Chars("ROMs"), RomObjectB) >>,
      << Attribute(Chars("ROMs"), JOther) >> }
JsonFileUniverse ==
    {JsonFile(Chars("json/mario.v1.json"), TRUE, TRUE,
              GameFileOf(Chars("Mario"), sigs, attrs)) :
        sigs \in SeqsUpTo(SigUniverse, MaxSigs), attrs \in AttributeLists}
    \cup {JsonFile(Chars("json/mario.v1.json"), FALSE, FALSE, <<>>),
          JsonFile(Chars("json/mario.v1.json"), TRUE, FALSE, <<>>)}

\* The games MergeAndDeduplicate is given.
RomB == RomOfObject(RomObjectB.fields)
GameUniverse ==
    { GameData(Chars("A"), Chars("B:C"), Chars("P"), <<>>),
      GameData(Chars("A"), Chars("B:C"), Chars("P"), <<RomB>>),
      GameData(Chars("A:B"), Chars("C"), Chars("P"), <<>>),
      GameData(Chars("A"), Chars("B:C"), Chars("Q"), <<>>) }

\* The game blocks of the DAT files parseDAT is given on its own: each game
\* has its own rom name and digest.
Block(name, rom, file, sha1) ==
    [name |-> name, rom |-> rom, file |-> file, sha1 |-> sha1]
BlockUniverse ==
    {Block(Chars("Mario"), rom, Chars("a.bin"), Rep("A", Sha1HexLen)) :
        rom \in {"full", "quoted", "nofile", "nosha1", "norom"}}
    \cup
    {Block(Chars("Luigi"), rom, Chars("b.bin"), HashB) :
        rom \in {"full", "quoted", "nofile", "nosha1", "norom"}}

\* The text of a DAT file holding these blocks.
RECURSIVE DatText(_)
DatText(blocks) ==
    IF blocks = <<>> THEN <<>>
    ELSE DatBlock(Head(blocks).name, Head(blocks).rom, Head(blocks).file,
                  Head(blocks).sha1) \o DatText(Tail(blocks))

-----------------------------------------------------------------------------
(* The store-level operations *)

NoCall == [op |-> "none"]

\* main: os.Remove and os.Create replace the database file by an empty one
\* and initDBSchema creates table games. Their errors are discarded: a file
\* that can be neither removed nor truncated keeps the rows of an earlier run
\* and cannot be written.
StoreInit ==
    /\ \/ games = <<>> /\ readOnly = FALSE
       \/ games \in OldStores /\ readOnly = TRUE
    /\ last = NoCall
StoreIdle == games = <<>> /\ readOnly = FALSE /\ last = NoCall
RunIdle ==
    /\ pc = "idle" /\ datFiles = <<>> /\ next = 1
    /\ gameMap = <<>> /\ todo = {} /\ totalGames = 0

NotProcessed == [games |-> <<>>, err |-> "unset"]
NotMerged == [done |-> FALSE, games |-> <<>>]
JsonIdle ==
    /\ jsonFile = <<>> /\ processed = NotProcessed
    /\ allGames = <<>> /\ unique = NotMerged
NotHashed == [hash |-> <<>>, err |-> "unset"]
HashIdle == target = <<>> /\ digest = NotHashed
NotParsed == [games |-> <<>>, err |-> "unset"]
DatIdle == dat = <<>> /\ parsedGames = NotParsed

KeysPresent(db, gs) ==
    \A i \in 1..Len(gs) : \E j \in 1..Len(db) : UniqueConflict(db[j], gs[i])

\* insertGames(db, gs) under an injected fault.
InsertGames ==
    \E gs \in Batches : \E fault \in FaultsOf(readOnly, Len(gs)) :
        LET r == insertGames(games, gs, fault) IN
        /\ games' = r.db
        /\ last' = [op |-> "insertGames", games |-> gs, fault |-> fault,
                    err |-> r.err, before |-> games,
                    repeat |-> /\ last.op = "insertGames"
                               /\ last.err = "nil"
                               /\ last.games = gs]
        /\ UNCHANGED <<readOnly, runVars, datVars, hashVars, jsonVars>>

LookupByHash ==
    \E q \in HashQueries : \E dbNil, queryErr \in BOOLEAN :
        /\ last' = [op |-> "FindByHash", query |-> q, dbNil |-> dbNil,
                    queryErr |-> queryErr,
                    result |-> FindByHash(dbNil, queryErr, games, q)]
        /\ UNCHANGED <<games, readOnly, runVars, datVars, hashVars, jsonVars>>

LookupByFilename ==
    \E q \in FilenameQueries : \E dbNil, queryErr \in BOOLEAN :
        /\ last' = [op |-> "FindByFilename", query |-> q, dbNil |-> dbNil,
                    queryErr |-> queryErr,
                    result |-> FindByFilename(dbNil, queryErr, games, q)]
        /\ UNCHANGED <<games, readOnly, runVars, datVars, hashVars, jsonVars>>

Init == StoreInit /\ RunIdle /\ DatIdle /\ HashIdle /\ JsonIdle
Next == InsertGames \/ LookupByHash \/ LookupByFilename
Spec == Init /\ [][Next]_vars

-----------------------------------------------------------------------------
(* populateDB: one run over the DAT files found *)

RunInit ==
    /\ pc = "download"
    /\ datFiles = <<>>
    /\ next = 1
    /\ gameMap = <<>>
    /\ todo = {}
    /\ totalGames = 0

\* downloadDATFiles: the clone or a directory of datDirs may be missing, and
\* populateDB panics; otherwise the .dat files found, in walk order.
DownloadDATFiles ==
    /\ pc = "download"
    /\ \/ pc' = "panic" /\ UNCHANGED datFiles
       \/ pc' = "parse" /\ datFiles' \in SeqsUpTo(DatFileUniverse, MaxFiles)
    /\ UNCHANGED <<next, gameMap, todo, totalGames, storeVars, datVars, hashVars, jsonVars>>

\* gameMap[platform] = games: the records of an earlier file of the platform
\* are lost.
AppendGroupOverwrites(m, platform, gs) ==
    [p \in DOMAIN m \cup {platform} |-> IF p = platform THEN gs ELSE m[p]]

\* gameMap[platform] = append(gameMap[platform], games...)
AppendGroup(m, platform, gs) ==
    [p \in DOMAIN m \cup {platform} |->
        IF p = platform
        THEN (IF platform \in DOMAIN m THEN m[platform] ELSE <<>>) \o gs
        ELSE m[p]]

\* One turn of the loop over datFiles: a file that cannot be read is reported
\* and skipped.
ParseFile ==
    /\ pc = "parse"
    /\ next <= Len(datFiles)
    /\ LET file == datFiles[next]
           platform == parseFilename(file.name)
       IN gameMap' = IF file.readable
                     THEN AppendGroup(gameMap, platform, parseDAT(file.content, platform))
                     ELSE gameMap
    /\ next' = next + 1
    /\ UNCHANGED <<pc, datFiles, todo, totalGames, storeVars, datVars, hashVars, jsonVars>>

\* The loop over datFiles is over: range over gameMap starts.
StartInsert ==
    /\ pc = "parse"
    /\ next > Len(datFiles)
    /\ pc' = "insert"
    /\ todo' = DOMAIN gameMap
    /\ UNCHANGED <<datFiles, next, gameMap, totalGames, storeVars, datVars, hashVars, jsonVars>>

\* One turn of the range over gameMap. Go visits the keys of a map in an
\* order that changes from run to run: any platform left may come next. An
\* error of insertGames panics.
InsertGroup ==
    /\ pc = "insert"
    /\ \E platform \in todo : \E fault \in FaultsOf(readOnly, Len(gameMap[platform])) :
          LET r == insertGames(games, gameMap[platform], fault) IN
          /\ games' = r.db
          /\ last' = [op |-> "insertGames", games |-> gameMap[platform],
                      fault |-> fault, err |-> r.err, before |-> games,
                      repeat |-> FALSE]
          /\ IF r.err # "nil"
             THEN pc' = "panic" /\ UNCHANGED <<todo, totalGames>>
             ELSE /\ pc' = pc
                  /\ todo' = todo \ {platform}
                  /\ totalGames' = totalGames + Len(gameMap[platform])
    /\ UNCHANGED <<readOnly, datFiles, next, gameMap, datVars, hashVars, jsonVars>>

\* Every group is inserted: populateDB returns.
Finish ==
    /\ pc = "insert"
    /\ todo = {}
    /\ pc' = "done"
    /\ UNCHANGED <<datFiles, next, gameMap, todo, totalGames, storeVars, datVars, hashVars, jsonVars>>

InitRun == StoreInit /\ RunInit /\ DatIdle /\ HashIdle /\ JsonIdle
NextRun == DownloadDATFiles \/ ParseFile \/ StartInsert \/ InsertGroup \/ Finish
SpecRun == InitRun /\ [][NextRun]_vars

-----------------------------------------------------------------------------
(* parseDAT on its own *)

DatInit == dat \in SeqsUpTo(BlockUniverse, MaxBlocks) /\ parsedGames = NotParsed

\* parseDAT(filename, "GB"): os.ReadFile fails, or the content is parsed.
ParseDAT ==
    /\ parsedGames = NotParsed
    /\ \E readable \in BOOLEAN :
          parsedGames' =
              IF readable
              THEN [games |-> parseDAT(DatText(dat), Chars("GB")), err |-> "nil"]
              ELSE [games |-> <<>>, err |-> "failed to read file"]
    /\ UNCHANGED <<dat, storeVars, runVars, hashVars, jsonVars>>

InitDat == StoreIdle /\ RunIdle /\ DatInit /\ HashIdle /\ JsonIdle
NextDat == ParseDAT
SpecDat == InitDat /\ [][NextDat]_vars

-----------------------------------------------------------------------------
(* CalculateFileHash on its own *)

HashInit == target \in TargetUniverse /\ digest = NotHashed

HashFile ==
    /\ digest = NotHashed
    /\ digest' = CalculateFileHash(target.name, target.file)
    /\ UNCHANGED <<target, storeVars, runVars, datVars, jsonVars>>

InitHash == StoreIdle /\ RunIdle /\ DatIdle /\ HashInit /\ JsonIdle
NextHash == HashFile
SpecHash == InitHash /\ [][NextHash]_vars

-----------------------------------------------------------------------------
(* ProcessFile and MergeAndDeduplicate on their own *)

\* The orders in which a range over a map with these keys may visit them.
Orders(keys) ==
    {o \in [1..Cardinality(keys) -> keys] :
        \A i, j \in 1..Cardinality(keys) : i # j => o[i] # o[j]}

ProcessInit ==
    /\ jsonFile \in JsonFileUniverse /\ processed = NotProcessed
    /\ allGames = <<>> /\ unique = NotMerged

\* ProcessFile(jsonFile.name). Go visits the keys of platforms in an order
\* that changes from run to run.
ProcessJSON ==
    /\ processed = NotProcessed
    /\ \E order \in (IF jsonFile.readable /\ jsonFile.valid
                     THEN Orders(PlatformsOf(jsonFile.data)) ELSE {<<>>}) :
          processed' = ProcessFile(jsonFile, order)
    /\ UNCHANGED <<jsonFile, allGames, unique, storeVars, runVars, datVars, hashVars>>

InitJson == StoreIdle /\ RunIdle /\ DatIdle /\ HashIdle /\ ProcessInit
NextJson == ProcessJSON
SpecJson == InitJson /\ [][NextJson]_vars

MergeInit ==
    /\ jsonFile = <<>> /\ processed = NotProcessed
    /\ allGames \in SeqsUpTo(GameUniverse, MaxGames) /\ unique = NotMerged

Merge ==
    /\ unique = NotMerged
    /\ unique' = [done |-> TRUE, games |-> MergeAndDeduplicate(allGames)]
    /\ UNCHANGED <<jsonFile, processed, allGames, storeVars, runVars, datVars, hashVars>>

InitMerge == StoreIdle /\ RunIdle /\ DatIdle /\ HashIdle /\ MergeInit
NextMerge == Merge
SpecMerge == InitMerge /\ [][NextMerge]_vars

-----------------------------------------------------------------------------
(* Claims *)

RowSet(db) == {db[i] : i \in 1..Len(db)}

\* C1: after any sequence of insertGames calls the table never holds two rows
\* with the same (filename, hash) key, and inserting a list again (the same
\* list twice in a row, or any list whose keys are all stored already) leaves
\* the rows as they were: no row added, none overwritten.
C1_UniqueKeyAndIdempotentInsert ==
    /\ \A i, j \in 1..Len(games) : i < j => ~UniqueConflict(games[i], games[j])
    /\ last.op = "insertGames" =>
          /\ last.repeat => games = last.before
          /\ KeysPresent(last.before, last.games) => games = last.before

\* C1 witness: a two-record list was committed twice in a row.
C1_Witness ==
    /\ last.op = "insertGames"
    /\ last.repeat
    /\ last.err = "nil"
    /\ Len(last.games) = 2
    /\ Len(games) >= 1

\* C2: one insertGames call is all-or-nothing. A failure of begin, prepare, an
\* exec or commit returns an error and leaves exactly the rows held before
\* the call. Without such a failure the call returns nil, whatever uniqueness
\* conflicts its records meet: the rows held before stay in place, and every
\* record whose key is neither stored already nor carried by an earlier record
\* of the batch is committed.
C2_AllOrNothing ==
    last.op = "insertGames" =>
        /\ last.fault.at # "none" => last.err # "nil" /\ games = last.before
        /\ last.fault.at = "none" =>
              /\ last.err = "nil"
              /\ Len(games) >= Len(last.before)
              /\ SubSeq(games, 1, Len(last.before)) = last.before
              /\ \A i \in 1..Len(last.games) :
                    \/ \E j \in 1..Len(last.before) :
                          UniqueConflict(last.before[j], last.games[i])
                    \/ \E j \in 1..(i - 1) :
                          UniqueConflict(last.games[j], last.games[i])
                    \/ last.games[i] \in RowSet(games)

\* C2 witness: the second exec of a batch failed after the first had added a
\* row to the transaction.
C2_Witness ==
    /\ last.op = "insertGames"
    /\ last.fault = [at |-> "exec", idx |-> 2]
    /\ ~KeysPresent(last.before, <<last.games[1]>>)
    /\ last.err # "nil"
    /\ games = last.before

\* The rows of the store when populateDB was entered: none, or those of a
\* write-protected file, which no insert changes.
StoreAtEntry == IF readOnly THEN games ELSE <<>>

\* C3: when an insert fails during populateDB, the run ends and the store
\* holds no record of any platform group parsed in that run.
C3_NothingCommittedOnFailure == pc = "panic" => games = StoreAtEntry

\* Letter case in the sense of the claim: two strings differ only in letter
\* case when their lower-case forms are equal.
EqualFold(a, b) == ToLower(a) = ToLower(b)

\* C4: query strings that differ only in letter case get the same outcome from
\* FindByHash (from FindByFilename), and a record is returned only if its hash
\* (its filename) equals the query up to letter case.
C4_LookupsIgnoreLetterCase ==
    /\ (last.op = "FindByHash" /\ ~last.dbNil /\ ~last.queryErr) =>
          /\ \A q \in HashQueries :
                EqualFold(q, last.query) =>
                    FindByHash(FALSE, FALSE, games, q) = last.result
          /\ last.result.present =>
                EqualFold(last.result.game.Hash, last.query)
    /\ (last.op = "FindByFilename" /\ ~last.dbNil /\ ~last.queryErr) =>
          /\ \A q \in FilenameQueries :
                EqualFold(q, last.query) =>
                    FindByFilename(FALSE, FALSE, games, q) = last.result
          /\ last.result.present =>
                EqualFold(last.result.game.Filename, last.query)

IsZipName(name) == ToLower(Ext(name)) = Chars(".zip")
FirstEntryGood(file) ==
    /\ file.openable /\ file.valid /\ Len(file.entries) >= 1
    /\ file.entries[1].openable /\ file.entries[1].intact

\* C5: the digest of a .zip archive whose first entry decompresses to B is the
\* digest of a plain file whose content is B, whatever entries follow.
C5_ZipDigestIsPlainDigest ==
    (digest # NotHashed /\ IsZipName(target.name) /\ FirstEntryGood(target.file)) =>
        /\ digest.err = "nil"
        /\ digest = CalculateFileHash(PlainName, PlainFile(target.file.entries[1].data))

\* C5 witness: an archive holding "abc" and then a different entry was hashed
\* to the SHA-1 of "abc".
C5_Witness ==
    /\ IsZipName(target.name)
    /\ Len(target.file.entries) = 2
    /\ target.file.entries[1] = ZipEntry(TRUE, TRUE, <<97, 98, 99>>)
    /\ target.file.entries[2] = ZipEntry(TRUE, TRUE, <<97>>)
    /\ digest = Hashed(Chars("a9993e364706816aba3e25717850c26c9cd0d89d"))

\* C6: every error outcome of CalculateFileHash carries the empty digest;
\* an archive that cannot be opened, has no entry, or whose first entry cannot
\* be opened or read, and a plain file that cannot be opened or read, give an
\* error; an archive without entries gives "zip file is empty", never the
\* digest of the empty byte sequence.
C6_ErrorsCarryNoDigest ==
    digest # NotHashed =>
        /\ digest.err # "nil" => digest.hash = <<>>
        /\ (IsZipName(target.name) /\ ~FirstEntryGood(target.file)) =>
              digest.err # "nil"
        /\ (IsZipName(target.name) /\ target.file.openable /\ target.file.valid
              /\ target.file.entries = <<>>) =>
              /\ digest.err = "zip file is empty"
              /\ digest.hash # Chars("da39a3ee5e6b4b0d3255bfef95601890afd80709")
        /\ (~IsZipName(target.name)
              /\ (~target.file.openable \/ ~target.file.readable)) =>
              digest.err # "nil"

\* C6 witness: an archive without entries was hashed and gave the error.
C6_Witness ==
    /\ IsZipName(target.name)
    /\ target.file.valid
    /\ target.file.entries = <<>>
    /\ digest = HashError("zip file is empty")

\* The platform strings of the signature descriptors of a decoded file.
SigPlatforms(data) ==
    {data.SignatureDataObjects[i].Platform : i \in 1..Len(data.SignatureDataObjects)}

\* Two entries that share Name, Filename and ROMs and carry the two platforms.
TwoEntriesFor(gs, platforms) ==
    /\ Len(gs) = 2
    /\ gs[1].Name = gs[2].Name
    /\ gs[1].Filename = gs[2].Filename
    /\ gs[1].ROMs = gs[2].ROMs
    /\ gs[1].Platform # gs[2].Platform
    /\ {gs[1].Platform, gs[2].Platform} = platforms

\* C7 as stated: when the signature descriptors span two distinct platform
\* strings, ProcessFile yields exactly two entries that share Name, Filename
\* and ROMs, one per distinct platform string.
C7_TwoPlatformStringsTwoEntries ==
    (processed.err = "nil" /\ Cardinality(SigPlatforms(jsonFile.data)) = 2) =>
        TwoEntriesFor(processed.games, SigPlatforms(jsonFile.data))

\* C7 as amended: when the signature descriptors span two distinct non-empty
\* platform strings (descriptors with an empty platform are not counted),
\* ProcessFile yields exactly two entries that share Name, Filename and ROMs,
\* one per distinct non-empty platform string.
C7_TwoNonEmptyPlatformsTwoEntries ==
    (processed.err = "nil"
        /\ Cardinality(SigPlatforms(jsonFile.data) \ {<<>>}) = 2) =>
        TwoEntriesFor(processed.games, SigPlatforms(jsonFile.data) \ {<<>>})

\* C7 witness: a file whose descriptors name SNES, no platform and NES was
\* processed into two entries with two ROMs each.
C7_Witness ==
    /\ processed.err = "nil"
    /\ jsonFile.data.SignatureDataObjects =
          <<[Platform |-> Chars("SNES")], [Platform |-> <<>>], [Platform |-> Chars("NES")]>>
    /\ Len(processed.games) = 2
    /\ Len(processed.games[1].ROMs) = 2

\* The positions of allGames that hold the first occurrence of their
\* (name, filename, platform) tuple.
SameTuple(a, b) ==
    a.Name = b.Name /\ a.Filename = b.Filename /\ a.Platform = b.Platform
FirstOccurrences(gs) ==
    {i \in 1..Len(gs) : \A j \in 1..(i - 1) : ~SameTuple(gs[j], gs[i])}

\* C9: MergeAndDeduplicate keeps exactly the first occurrence of every
\* distinct (name, filename, platform) tuple, in input order, and applying it
\* to its own result changes nothing.
C9_OnePerTupleInOrder ==
    unique.done =>
        /\ Len(unique.games) = Cardinality(FirstOccurrences(allGames))
        /\ \A k \in 1..Len(unique.games) :
              \E i \in FirstOccurrences(allGames) :
                  /\ Cardinality({j \in FirstOccurrences(allGames) : j < i}) = k - 1
                  /\ unique.games[k] = allGames[i]
        /\ MergeAndDeduplicate(unique.games) = unique.games

\* The record a game block stands for, when it has a name, a rom name and a
\* digest: a quoted rom name gives the empty filename.
HasAllThree(b) == b.rom \in {"full", "quoted"}
RecordOf(b, platform) ==
    Game(b.name, IF b.rom = "quoted" THEN <<>> ELSE b.file, platform,
         ToLower(b.sha1))

\* C8: every record parseDAT returns takes its name, filename and hash from
\* one and the same game block, a block that has all three; a block missing
\* one of them yields no record.
C8_RecordsComeFromOneBlock ==
    parsedGames.err = "nil" =>
        \A i \in 1..Len(parsedGames.games) :
            \E k \in 1..Len(dat) :
                /\ HasAllThree(dat[k])
                /\ parsedGames.games[i] = RecordOf(dat[k], Chars("GB"))

\* The rows a run without faults stores when it visits the groups in order o.
RECURSIVE InsertInOrder(_, _, _, _)
InsertInOrder(db, m, o, i) ==
    IF i > Len(o) THEN db
    ELSE InsertInOrder(insertGames(db, m[o[i]], NoFault).db, m, o, i + 1)

\* C10: for fixed source files the set of rows populateDB stores is the same
\* in every execution, whatever the order in which the groups of gameMap are
\* inserted.
C10_SameRowsInEveryOrder ==
    pc = "done" =>
        \A o \in Orders(DOMAIN gameMap) :
            RowSet(InsertInOrder(StoreAtEntry, gameMap, o, 1)) = RowSet(games)

\* The records the parseDAT calls of a run returned: those of every file of
\* datFiles that could be read, under the platform of its name.
ParsedInRun ==
    UNION {LET gs == parseDAT(datFiles[k].content, parseFilename(datFiles[k].name))
           IN {gs[i] : i \in 1..Len(gs)} :
              k \in {j \in 1..Len(datFiles) : datFiles[j].readable}}

\* C11: once populateDB has inserted every platform group without an error
\* into a store that was empty, every record r a parseDAT call of the run
\* returned is reachable by lookup: FindByHash(r.Hash) returns a record whose
\* hash is r.Hash, and FindByFilename(r.Filename) returns a record whose
\* filename is r.Filename up to letter case, also when r itself was ignored
\* as a key conflict. The lookups are those of an open store that answers
\* the query; a nil handle or a failed query returns an error and no record.
C11_ParsedRecordsAreFound ==
    (pc = "done" /\ StoreAtEntry = <<>>) =>
        \A r \in ParsedInRun :
            LET byHash == FindByHash(FALSE, FALSE, games, r.Hash)
                byName == FindByFilename(FALSE, FALSE, games, r.Filename)
            IN /\ byHash.present
               /\ byHash.game.Hash = r.Hash
               /\ byName.present
               /\ EqualFold(byName.game.Filename, r.Filename)

\* C11 witness: a run is over in which one parsed record was ignored as a key
\* conflict and the lookup of another record's filename returns a row whose
\* filename differs from it in letter case.
C11_Witness ==
    /\ pc = "done"
    /\ \E r \in ParsedInRun : \A i \in 1..Len(games) : games[i] # r
    /\ \E r \in ParsedInRun :
          /\ \E i \in 1..Len(games) : games[i] = r
          /\ FindByFilename(FALSE, FALSE, games, r.Filename).game.Filename # r.Filename

====
